---- MODULE Spec2Model ----
(***************************************************************************)
(* Model of tools/idf_py_actions/serial_ext.py: the serial actions of      *)
(* idf.py (flash, erase_flash, monitor and the scoped flash variants),     *)
(* their port / baud resolution, the post-scheduling encryption scan and   *)
(* the declared action table.                                              *)
(*                                                                         *)
(* Python values are modelled with one record shape so that None, ints and *)
(* strings can be compared with each other.  A string is the sequence of   *)
(* its code points.                                                        *)
(***************************************************************************)
EXTENDS Integers, Sequences, FiniteSets, TLC

VARIABLES
    tasks,          \* the parsed task list handed to global_callback: [name, encrypted]
    phase,          \* "parsed" | "running" | "done" | "failed" | "validate"
    ran,            \* names of the tasks whose callback has been invoked, in order
    port_option,    \* the -p / ESPPORT value of the command line (None when not given)
    args_port,      \* args.port, shared by every callback of one invocation
    devices,        \* the serial devices attached right now
    enumerations,   \* the listings comports() has returned so far
    printed,        \* the ports announced by "Choosing default port ..."
    calls,          \* the run_tool / run_target calls made so far
    error,          \* the exception that ended the invocation, NoError otherwise
    elf_exists,     \* os.path.exists(elf_file)
    desc_exists,    \* os.path.exists(desc_path)
    monitor_baud,   \* the --monitor-baud option of monitor
    environ,        \* os.environ: IDF_MONITOR_BAUD and MONITORBAUD
    project_desc,   \* project_description.json: monitor_baud
    base,           \* the action names known besides the serial table (base_actions)
    vstack,         \* validate: the actions on the current path (visiting)
    vdone,          \* validate: the actions already finished (visited)
    vresult,        \* validate: "idle" | "running" | "ok" | "cycle" | "dangling"
    vbad            \* validate: the offending name, "" otherwise

vars == <<tasks, phase, ran, port_option, args_port, devices, enumerations, printed,
          calls, error, elf_exists, desc_exists, monitor_baud, environ, project_desc,
          base, vstack, vdone, vresult, vbad>>

invocation_vars == <<tasks, phase, ran, port_option, args_port, devices, enumerations,
                     printed, calls, error, elf_exists, desc_exists, monitor_baud,
                     environ, project_desc>>

validate_vars == <<base, vstack, vdone, vresult, vbad>>

-----------------------------------------------------------------------------
(* Bounds of the model. *)

\* the number of serial devices attached at once
MaxDevices == 2

\* the number of distinct actions named on one command line
MaxTasks == 2

\* the length of a task list handed to global_callback (names may repeat)
MaxListed == 3

-----------------------------------------------------------------------------
(* Python values. *)

None == [t |-> "none", i |-> 0, s |-> <<>>]

Missing == [t |-> "missing", i |-> 0, s |-> <<>>]

IntVal(n) == [t |-> "int", i |-> n, s |-> <<>>]

StrVal(chars) == [t |-> "str", i |-> 0, s |-> chars]

\* bool(v): None, 0 and "" are false
Truthy(v) ==
    \/ v.t = "int" /\ v.i # 0
    \/ v.t = "str" /\ v.s # <<>>

RECURSIVE Digits(_)
\* the decimal digits of n >= 0 as code points
Digits(n) ==
    IF n < 10 THEN <<48 + n>> ELSE Append(Digits(n \div 10), 48 + (n % 10))

\* str(v)
PyStr(v) ==
    IF v.t = "int"
    THEN StrVal(IF v.i < 0 THEN <<45>> \o Digits(0 - v.i) ELSE Digits(v.i))
    ELSE v

RECURSIVE StrLess(_, _)
\* a < b for Python strings: code point by code point, a proper prefix is smaller
StrLess(a, b) ==
    IF a = <<>> THEN b # <<>>
    ELSE IF b = <<>> THEN FALSE
    ELSE IF Head(a) = Head(b) THEN StrLess(Tail(a), Tail(b))
    ELSE Head(a) < Head(b)

RECURSIVE Insert(_, _)
Insert(x, seq) ==
    IF seq = <<>> THEN <<x>>
    ELSE IF StrLess(x, Head(seq)) THEN <<x>> \o seq
    ELSE <<Head(seq)>> \o Insert(x, Tail(seq))

RECURSIVE sorted(_)
\* sorted(seq): ascending
sorted(seq) ==
    IF seq = <<>> THEN <<>> ELSE Insert(Head(seq), sorted(Tail(seq)))

\* list(reversed(seq))
reversed(seq) == [k \in 1..Len(seq) |-> seq[Len(seq) + 1 - k]]

Range(seq) == {seq[k] : k \in DOMAIN seq}

-----------------------------------------------------------------------------
(* The inputs the model draws from. *)

ttyUSB0 == <<116, 116, 121, 85, 83, 66, 48>>

ttyUSB1 == <<116, 116, 121, 85, 83, 66, 49>>

ttyUSB10 == <<116, 116, 121, 85, 83, 66, 49, 48>>

ttyACM0 == <<116, 116, 121, 65, 67, 77, 48>>

COM5 == <<67, 79, 77, 53>>

DeviceNames == {ttyUSB0, ttyUSB1, ttyUSB10, ttyACM0}

DeviceSets == {S \in SUBSET DeviceNames : Cardinality(S) <= MaxDevices}

\* the orders in which comports() may list the attached devices
Listings(S) ==
    {l \in [1..Cardinality(S) -> S] : \A j, k \in 1..Cardinality(S) : l[j] = l[k] => j = k}

PortOptions == {None, StrVal(<<>>), StrVal(COM5), StrVal(ttyUSB0)}

\* "9600", "74880", "115200"
Baud9600 == StrVal(<<57, 54, 48, 48>>)

Baud74880 == StrVal(<<55, 52, 56, 56, 48>>)

Baud115200 == StrVal(<<49, 49, 53, 50, 48, 48>>)

MonitorBaudOptions == {None, IntVal(0), IntVal(921600)}

Environs ==
    [IDF_MONITOR_BAUD : {None, StrVal(<<>>), Baud9600},
     MONITORBAUD : {None, StrVal(<<>>), Baud74880}]

ProjectDescs == [monitor_baud : {Missing, Baud115200}]

DefaultEnviron == [IDF_MONITOR_BAUD |-> None, MONITORBAUD |-> None]

DefaultProjectDesc == [monitor_baud |-> Baud115200]

-----------------------------------------------------------------------------
(* Errors. *)

NoError == "none"

\* RuntimeError("No serial ports found. ...")
NoDeviceFoundError == "RuntimeError: No serial ports found"

\* FatalError("ELF file '%s' not found. You need to build & flash ...")
MissingArtifactError == "FatalError: ELF file not found, build & flash first"

\* ensure_build_directory failed
BuildDirectoryError == "FatalError: build directory"

\* open(flasher_args.json) failed
FlasherArgsError == "IOError: flasher_args.json"

\* project_desc["monitor_baud"] on a description without it
KeyError == "KeyError: monitor_baud"

\* run_tool / run_target: the external tool returned non-zero
SubprocessFailureError == "FatalError: tool failed"

-----------------------------------------------------------------------------
(* The action table: serial_actions["actions"].  `keys` are the keys an      *)
(* entry declares; an entry without "options" or "order_dependencies" has     *)
(* the empty sequence there.  "global_options" stands for the options of      *)
(* idf_py_actions.global_options, "print_filter" for --print-filter,          *)
(* "monitor_baud" for --monitor-baud and "encrypted" for --encrypted.         *)

\* flash ordered after monitor as well: a cycle flash -> monitor -> flash
flash_action_after_monitor ==
    [callback |-> "flash",
     keys |-> {"callback", "help", "options", "order_dependencies"},
     options |-> <<"global_options", "baud_rate", "port">>,
     order_dependencies |-> <<"all", "erase_flash", "monitor">>]

flash_action ==
    [callback |-> "flash",
     keys |-> {"callback", "help", "options", "order_dependencies"},
     options |-> <<"global_options", "baud_rate", "port">>,
     order_dependencies |-> <<"all", "erase_flash">>]

\* erase_flash declared without the port option
erase_flash_action_no_port ==
    [callback |-> "erase_flash",
     keys |-> {"callback", "help", "options"},
     options |-> <<"baud_rate">>,
     order_dependencies |-> <<>>]

erase_flash_action ==
    [callback |-> "erase_flash",
     keys |-> {"callback", "help", "options"},
     options |-> <<"baud_rate", "port">>,
     order_dependencies |-> <<>>]

monitor_action ==
    [callback |-> "monitor",
     keys |-> {"callback", "help", "options", "order_dependencies"},
     options |-> <<"port", "print_filter", "monitor_baud", "encrypted">>,
     order_dependencies |-> <<"flash", "encrypted-flash", "partition_table-flash",
                              "bootloader-flash", "app-flash", "encrypted-app-flash">>]

partition_table_flash_action ==
    [callback |-> "flash",
     keys |-> {"callback", "help", "options", "order_dependencies"},
     options |-> <<"baud_rate", "port">>,
     order_dependencies |-> <<"partition_table", "erase_flash">>]

bootloader_flash_action ==
    [callback |-> "flash",
     keys |-> {"callback", "help", "options", "order_dependencies"},
     options |-> <<"baud_rate", "port">>,
     order_dependencies |-> <<"bootloader", "erase_flash">>]

\* app-flash declared without erase_flash among its predecessors
app_flash_action_no_erase ==
    [callback |-> "flash",
     keys |-> {"callback", "help", "options", "order_dependencies"},
     options |-> <<"baud_rate", "port">>,
     order_dependencies |-> <<"app">>]

app_flash_action ==
    [callback |-> "flash",
     keys |-> {"callback", "help", "options", "order_dependencies"},
     options |-> <<"baud_rate", "port">>,
     order_dependencies |-> <<"app", "erase_flash">>]

encrypted_app_flash_action ==
    [callback |-> "flash",
     keys |-> {"callback", "help", "order_dependencies"},
     options |-> <<>>,
     order_dependencies |-> <<"app", "erase_flash">>]

encrypted_flash_action ==
    [callback |-> "flash",
     keys |-> {"callback", "help", "order_dependencies"},
     options |-> <<>>,
     order_dependencies |-> <<"all", "erase_flash">>]

\* the names of the table, in the order they are declared
ActionOrder ==
    <<"flash", "erase_flash", "monitor", "partition_table-flash", "bootloader-flash",
      "app-flash", "encrypted-app-flash", "encrypted-flash">>

ActionNames == Range(ActionOrder)

serial_actions ==
    [n \in ActionNames |->
        CASE n = "flash" -> flash_action
          [] n = "erase_flash" -> erase_flash_action
          [] n = "monitor" -> monitor_action
          [] n = "partition_table-flash" -> partition_table_flash_action
          [] n = "bootloader-flash" -> bootloader_flash_action
          [] n = "app-flash" -> app_flash_action
          [] n = "encrypted-app-flash" -> encrypted_app_flash_action
          [] n = "encrypted-flash" -> encrypted_flash_action]

\* baud_rate["default"]
default_baud == 460800

\* args.baud: the default of the -b option
args_baud == IntVal(default_baud)

\* the flash variants: the actions whose callback is flash
FlashVariants == {n \in ActionNames : serial_actions[n].callback = "flash"}

\* the build actions the table names as predecessors and base_actions declares
BuildActions == {"all", "app", "bootloader", "partition_table"}

-----------------------------------------------------------------------------
(* The callbacks.  Each is an operator from the state it reads and the      *)
(* answers of its collaborators to its outcome:                              *)
(*   error      the exception it raised, NoError otherwise                   *)
(*   port       args.port when it returns or raises                          *)
(*   listed     whether it called comports()                                 *)
(*   printed    the ports it announced                                       *)
(*   desc       whether project_description.json exists afterwards           *)
(*   calls      the run_tool / run_target calls it made                      *)

\* the ports sorted, the reversal forgotten
default_ports_unreversed(listing) == sorted(listing)

\* ports = list(reversed(sorted(p.device for p in comports())))
default_ports(listing) == reversed(sorted(listing))

\* the IndexError swallowed: no port, no exception
_get_default_serial_port_swallowed(listing) ==
    LET ports == reversed(sorted(listing))
    IN  IF ports = <<>>
        THEN [raised |-> FALSE, value |-> None, printed |-> <<>>]
        ELSE [raised |-> FALSE, value |-> StrVal(ports[1]),
              printed |-> <<StrVal(ports[1])>>]

\* _get_default_serial_port(): ports[0] raises IndexError before anything is printed
_get_default_serial_port(listing) ==
    LET ports == default_ports(listing)
    IN  IF ports = <<>>
        THEN [raised |-> TRUE, value |-> None, printed |-> <<>>]
        ELSE [raised |-> FALSE, value |-> StrVal(ports[1]),
              printed |-> <<StrVal(ports[1])>>]

\* the test of args.port forgotten: the default port is looked up every time
resolve_port_always(port, listing) ==
    LET d == _get_default_serial_port(listing)
    IN  [raised |-> d.raised, value |-> d.value, printed |-> d.printed,
         listed |-> TRUE]

\* if args.port is None: args.port = _get_default_serial_port()
resolve_port(port, listing) ==
    IF port = None
    THEN LET d == _get_default_serial_port(listing)
         IN  [raised |-> d.raised, value |-> d.value, printed |-> d.printed,
              listed |-> TRUE]
    ELSE [raised |-> FALSE, value |-> port, printed |-> <<>>, listed |-> FALSE]

Call(tool, action, port, baud, encrypted) ==
    [tool |-> tool, action |-> action, port |-> port, baud |-> baud,
     encrypted |-> encrypted]

Outcome(err, port, r, desc, made) ==
    [error |-> err, port |-> port, listed |-> r.listed, printed |-> r.printed,
     desc |-> desc, calls |-> made]

\* the exit status of the external tool, surfaced by run_tool / run_target
ToolStatus(tool_ok) == IF tool_ok THEN NoError ELSE SubprocessFailureError

\* erase_flash(action, ctx, args), with _get_esptool_args(args) inlined
erase_flash(action, port, listing, desc, flasher_args_ok, tool_ok) ==
    LET r == resolve_port(port, listing)
    IN  IF r.raised THEN Outcome(NoDeviceFoundError, port, r, desc, <<>>)
        ELSE IF ~flasher_args_ok THEN Outcome(FlasherArgsError, r.value, r, desc, <<>>)
        ELSE Outcome(ToolStatus(tool_ok), r.value, r, desc,
                     <<Call("esptool.py", action, r.value, PyStr(args_baud), FALSE)>>)

\* the default port kept in a local: args.port is left as it was
flash_port_not_stored(action, port, listing, desc, built, tool_ok) ==
    LET r == resolve_port(port, listing)
        quiet == [raised |-> FALSE, value |-> port, printed |-> <<>>, listed |-> FALSE]
    IN  IF ~built THEN Outcome(BuildDirectoryError, port, quiet, desc, <<>>)
        ELSE IF r.raised THEN Outcome(NoDeviceFoundError, port, r, TRUE, <<>>)
        ELSE Outcome(ToolStatus(tool_ok), port, r, TRUE,
                     <<Call("run_target", action, r.value, PyStr(args_baud), FALSE)>>)

\* flash(action, ctx, args): ensure_build_directory comes first
flash(action, port, listing, desc, built, tool_ok) ==
    LET r == resolve_port(port, listing)
        quiet == [raised |-> FALSE, value |-> port, printed |-> <<>>, listed |-> FALSE]
    IN  IF ~built THEN Outcome(BuildDirectoryError, port, quiet, desc, <<>>)
        ELSE IF r.raised THEN Outcome(NoDeviceFoundError, port, r, TRUE, <<>>)
        ELSE Outcome(ToolStatus(tool_ok), r.value, r, TRUE,
                     <<Call("run_target", action, r.value, PyStr(args_baud), FALSE)>>)

\* the two environment variables looked up in the other order
resolve_monitor_baud_swapped(option, env, desc) ==
    IF ~Truthy(option)
    THEN IF Truthy(env.MONITORBAUD) THEN env.MONITORBAUD
         ELSE IF Truthy(env.IDF_MONITOR_BAUD) THEN env.IDF_MONITOR_BAUD
         ELSE desc.monitor_baud
    ELSE option

\* lines 87-93 of monitor: the baud handed to idf_monitor.py with -b
resolve_monitor_baud(option, env, desc) ==
    IF ~Truthy(option)
    THEN IF Truthy(env.IDF_MONITOR_BAUD) THEN env.IDF_MONITOR_BAUD
         ELSE IF Truthy(env.MONITORBAUD) THEN env.MONITORBAUD
         ELSE desc.monitor_baud
    ELSE option

\* the test for the ELF file left out
monitor_no_elf_check(action, port, listing, desc, built, elf, option, env, pdesc, encrypted, tool_ok) ==
    LET r == resolve_port(port, listing)
        baud == resolve_monitor_baud(option, env, pdesc)
        dash_p == IF r.value # None THEN r.value ELSE None
    IN  IF r.raised THEN Outcome(NoDeviceFoundError, port, r, desc, <<>>)
        ELSE IF ~desc /\ ~built THEN Outcome(BuildDirectoryError, r.value, r, desc, <<>>)
        ELSE IF baud = Missing THEN Outcome(KeyError, r.value, r, TRUE, <<>>)
        ELSE Outcome(ToolStatus(tool_ok), r.value, r, TRUE,
                     <<Call("idf_monitor", action, dash_p, baud, encrypted)>>)

\* monitor(action, ctx, args, print_filter, monitor_baud, encrypted)
monitor(action, port, listing, desc, built, elf, option, env, pdesc, encrypted, tool_ok) ==
    LET r == resolve_port(port, listing)
        baud == resolve_monitor_baud(option, env, pdesc)
        dash_p == IF r.value # None THEN r.value ELSE None
    IN  IF r.raised THEN Outcome(NoDeviceFoundError, port, r, desc, <<>>)
        ELSE IF ~desc /\ ~built THEN Outcome(BuildDirectoryError, r.value, r, desc, <<>>)
        ELSE IF ~elf THEN Outcome(MissingArtifactError, r.value, r, TRUE, <<>>)
        ELSE IF baud = Missing THEN Outcome(KeyError, r.value, r, TRUE, <<>>)
        ELSE Outcome(ToolStatus(tool_ok), r.value, r, TRUE,
                     <<Call("idf_monitor", action, dash_p, baud, encrypted)>>)

\* whether the list holds a task of that name
HasTask(list, name) == \E k \in DOMAIN list : list[k].name = name

\* the index of the first task of that name
FirstTask(list, name) ==
    CHOOSE k \in DOMAIN list :
        list[k].name = name /\ \A j \in 1..(k - 1) : list[j].name # name

\* the scan looks for "encrypted-flash" alone
global_callback_flash_only(list) ==
    LET encryption == \E k \in DOMAIN list : list[k].name = "encrypted-flash"
    IN  IF encryption /\ HasTask(list, "monitor")
        THEN [list EXCEPT ![FirstTask(list, "monitor")].encrypted = TRUE]
        ELSE list

\* global_callback(ctx, global_args, tasks)
global_callback(list) ==
    LET encryption ==
            \E k \in DOMAIN list : list[k].name \in {"encrypted-flash", "encrypted-app-flash"}
    IN  IF encryption /\ HasTask(list, "monitor")
        THEN [list EXCEPT ![FirstTask(list, "monitor")].encrypted = TRUE]
        ELSE list

-----------------------------------------------------------------------------
(* One invocation of idf.py: the task list is parsed, the global callbacks  *)
(* run, then the scheduler runs each named action once, an action after      *)
(* those of its order_dependencies that are named too, and stops at the      *)
(* first exception.                                                          *)

Task(name, encrypted) == [name |-> name, encrypted |-> encrypted]

\* the sequences of at most n distinct elements of S
DistinctSeqs(S, n) ==
    UNION {{l \in [1..k -> S] : \A i, j \in 1..k : l[i] = l[j] => i = j} : k \in 0..n}

\* the task lists of at most n tasks, names may repeat; only monitor has the flag
TaskLists(n) ==
    UNION {{l \in [1..k -> [name : ActionNames, encrypted : BOOLEAN]] :
                \A i \in 1..k : l[i].encrypted => l[i].name = "monitor"} : k \in 0..n}

Unflagged(names) == [k \in DOMAIN names |-> Task(names[k], FALSE)]

ValidateIdle ==
    /\ base = {}
    /\ vstack = <<>>
    /\ vdone = {}
    /\ vresult = "idle"
    /\ vbad = ""

Started ==
    /\ phase = "parsed"
    /\ ran = <<>>
    /\ args_port = port_option
    /\ enumerations = <<>>
    /\ printed = <<>>
    /\ calls = <<>>
    /\ error = NoError
    /\ ValidateIdle

DefaultMonitorInputs ==
    /\ monitor_baud = None
    /\ environ = DefaultEnviron
    /\ project_desc = DefaultProjectDesc

\* any command line of at most MaxTasks actions, any port option, any devices
Init ==
    /\ tasks \in {Unflagged(l) : l \in DistinctSeqs(ActionNames, MaxTasks)}
    /\ port_option \in PortOptions
    /\ devices \in DeviceSets
    /\ elf_exists = TRUE
    /\ desc_exists = TRUE
    /\ DefaultMonitorInputs
    /\ Started

\* the scheduler may run n: it is named, has not run, and its named predecessors have
Eligible(n) ==
    /\ HasTask(tasks, n)
    /\ n \notin Range(ran)
    /\ \A d \in Range(serial_actions[n].order_dependencies) :
           HasTask(tasks, d) => d \in Range(ran)

\* the state after callback n returned or raised
Apply(n, listing, o) ==
    /\ ran' = Append(ran, n)
    /\ args_port' = o.port
    /\ enumerations' = IF o.listed THEN Append(enumerations, listing) ELSE enumerations
    /\ printed' = printed \o o.printed
    /\ calls' = calls \o o.calls
    /\ error' = o.error
    /\ desc_exists' = o.desc
    /\ phase' = IF o.error = NoError THEN "running" ELSE "failed"
    /\ UNCHANGED <<tasks, port_option, devices, elf_exists, monitor_baud, environ,
                   project_desc, validate_vars>>

GlobalCallback ==
    /\ phase = "parsed"
    /\ tasks' = global_callback(tasks)
    /\ phase' = "running"
    /\ UNCHANGED <<ran, port_option, args_port, devices, enumerations, printed, calls,
                   error, elf_exists, desc_exists, monitor_baud, environ, project_desc,
                   validate_vars>>

RunEraseFlash ==
    /\ phase = "running"
    /\ Eligible("erase_flash")
    /\ \E listing \in Listings(devices), flasher_args_ok \in BOOLEAN, tool_ok \in BOOLEAN :
           Apply("erase_flash", listing,
                 erase_flash("erase_flash", args_port, listing, desc_exists,
                             flasher_args_ok, tool_ok))

RunFlash ==
    /\ phase = "running"
    /\ \E n \in FlashVariants, listing \in Listings(devices), built \in BOOLEAN,
          tool_ok \in BOOLEAN :
           /\ Eligible(n)
           /\ Apply(n, listing, flash(n, args_port, listing, desc_exists, built, tool_ok))

RunMonitor ==
    /\ phase = "running"
    /\ Eligible("monitor")
    /\ \E listing \in Listings(devices), built \in BOOLEAN, tool_ok \in BOOLEAN :
           Apply("monitor", listing,
                 monitor("monitor", args_port, listing, desc_exists, built, elf_exists,
                         monitor_baud, environ, project_desc,
                         tasks[FirstTask(tasks, "monitor")].encrypted, tool_ok))

\* every named action has run
Finish ==
    /\ phase = "running"
    /\ \A n \in ActionNames : HasTask(tasks, n) => n \in Range(ran)
    /\ phase' = "done"
    /\ UNCHANGED <<tasks, ran, port_option, args_port, devices, enumerations, printed,
                   calls, error, elf_exists, desc_exists, monitor_baud, environ,
                   project_desc, validate_vars>>

\* a device is plugged in or pulled out before an action of the invocation runs
DevicesChange ==
    /\ phase \in {"parsed", "running"}
    /\ \E k \in DOMAIN tasks : tasks[k].name \notin Range(ran)
    /\ \E S \in DeviceSets \ {devices} : devices' = S
    /\ UNCHANGED <<tasks, phase, ran, port_option, args_port, enumerations, printed,
                   calls, error, elf_exists, desc_exists, monitor_baud, environ,
                   project_desc, validate_vars>>

Next == GlobalCallback \/ RunEraseFlash \/ RunFlash \/ RunMonitor \/ Finish

Spec == Init /\ [][Next]_vars

-----------------------------------------------------------------------------
(* Devices come and go between the actions of one invocation. *)

\* one action for each callback, and a second flash variant
HotplugActions == {"erase_flash", "flash", "app-flash", "monitor"}

InitHotplug ==
    /\ tasks \in {Unflagged(l) : l \in DistinctSeqs(HotplugActions, MaxTasks)}
    /\ port_option \in {None, StrVal(COM5)}
    /\ devices \in DeviceSets
    /\ elf_exists = TRUE
    /\ desc_exists = TRUE
    /\ DefaultMonitorInputs
    /\ Started

NextHotplug == Next \/ DevicesChange

SpecHotplug == InitHotplug /\ [][NextHotplug]_vars

-----------------------------------------------------------------------------
(* idf.py monitor alone, over every combination of its inputs. *)

InitMonitor ==
    /\ tasks \in {<<Task("monitor", e)>> : e \in BOOLEAN}
    /\ port_option \in PortOptions
    /\ devices \in DeviceSets
    /\ elf_exists \in BOOLEAN
    /\ desc_exists \in BOOLEAN
    /\ monitor_baud \in MonitorBaudOptions
    /\ environ \in Environs
    /\ project_desc \in ProjectDescs
    /\ Started

NextMonitor == GlobalCallback \/ RunMonitor \/ Finish

SpecMonitor == InitMonitor /\ [][NextMonitor]_vars

-----------------------------------------------------------------------------
(* Every set of actions of the table named on one command line, run in every *)
(* order the declared order_dependencies allow.                               *)

InitOrder ==
    /\ tasks \in {Unflagged(SelectSeq(ActionOrder, LAMBDA n : n \in S)) :
                     S \in SUBSET ActionNames}
    /\ port_option = StrVal(COM5)
    /\ devices = {}
    /\ elf_exists = TRUE
    /\ desc_exists = TRUE
    /\ DefaultMonitorInputs
    /\ Started

SpecOrder == InitOrder /\ [][Next]_vars

-----------------------------------------------------------------------------
(* global_callback on every task list of at most MaxListed tasks. *)

InitCallback ==
    /\ tasks \in TaskLists(MaxListed)
    /\ port_option = StrVal(COM5)
    /\ devices = {}
    /\ elf_exists = TRUE
    /\ desc_exists = TRUE
    /\ DefaultMonitorInputs
    /\ Started

SpecCallback == InitCallback /\ [][Next]_vars

-----------------------------------------------------------------------------
(* validate of the dependency table: a depth-first traversal of the          *)
(* predecessor edges with a visiting (vstack) / visited (vdone) marking, in   *)
(* every order of roots and edges.  `base` holds the names declared outside   *)
(* the serial table: none when the table is validated alone, the build        *)
(* actions when it is validated merged with base_actions.                     *)

Declared == ActionNames \cup base

predecessors_of(n) ==
    IF n \in ActionNames THEN Range(serial_actions[n].order_dependencies) ELSE {}

Top == vstack[Len(vstack)]

InitTable ==
    /\ tasks = <<>>
    /\ phase = "validate"
    /\ ran = <<>>
    /\ port_option = None
    /\ args_port = None
    /\ devices = {}
    /\ enumerations = <<>>
    /\ printed = <<>>
    /\ calls = <<>>
    /\ error = NoError
    /\ elf_exists = TRUE
    /\ desc_exists = TRUE
    /\ DefaultMonitorInputs
    /\ base \in {{}, BuildActions}
    /\ vstack = <<>>
    /\ vdone = {}
    /\ vresult = "running"
    /\ vbad = ""

ValidateStart ==
    /\ vresult = "running"
    /\ vstack = <<>>
    /\ \E a \in Declared \ vdone : vstack' = <<a>>
    /\ UNCHANGED <<invocation_vars, base, vdone, vresult, vbad>>

ValidateDescend ==
    /\ vresult = "running"
    /\ vstack # <<>>
    /\ \E p \in predecessors_of(Top) \ vdone :
           IF p \notin Declared
           THEN vresult' = "dangling" /\ vbad' = p /\ vstack' = vstack
           ELSE IF p \in Range(vstack)
           THEN vresult' = "cycle" /\ vbad' = p /\ vstack' = vstack
           ELSE vresult' = vresult /\ vbad' = vbad /\ vstack' = Append(vstack, p)
    /\ UNCHANGED <<invocation_vars, base, vdone>>

ValidateReturn ==
    /\ vresult = "running"
    /\ vstack # <<>>
    /\ predecessors_of(Top) \subseteq vdone
    /\ vdone' = vdone \cup {Top}
    /\ vstack' = SubSeq(vstack, 1, Len(vstack) - 1)
    /\ UNCHANGED <<invocation_vars, base, vresult, vbad>>

ValidateFinish ==
    /\ vresult = "running"
    /\ vstack = <<>>
    /\ vdone = Declared
    /\ vresult' = "ok"
    /\ UNCHANGED <<invocation_vars, base, vstack, vdone, vbad>>

NextTable == ValidateStart \/ ValidateDescend \/ ValidateReturn \/ ValidateFinish

SpecTable == InitTable /\ [][NextTable]_vars

-----------------------------------------------------------------------------
(* The claims. *)

\* d is the greatest of the listed identifiers in Python's string order
GreatestOf(d, listing) ==
    /\ d \in Range(listing)
    /\ \A e \in Range(listing) : ~StrLess(d, e)

\* a comes before b among the actions run
Before(a, b) == \E j, k \in DOMAIN ran : j < k /\ ran[j] = a /\ ran[k] = b

\* C1: every tool call of erase_flash, flash and monitor gets the explicit port
\* unchanged, and then no device is ever enumerated; without an explicit port it
\* gets the greatest identifier (the first in reverse lexicographic order) of the
\* devices enumerated, in whatever order they were listed.
C1_PortResolution ==
    /\ port_option # None => enumerations = <<>>
    /\ \A k \in DOMAIN calls :
           IF port_option # None
           THEN calls[k].port = port_option
           ELSE /\ enumerations # <<>>
                /\ calls[k].port.t = "str"
                /\ GreatestOf(calls[k].port.s, enumerations[1])

\* C1 witness: ttyUSB0 and ttyUSB1 attached, no explicit port, and two different
\* tools were both handed ttyUSB1
C1_Witness ==
    /\ port_option = None
    /\ devices = {ttyUSB0, ttyUSB1}
    /\ Len(calls) = 2
    /\ calls[1].tool # calls[2].tool
    /\ \A k \in DOMAIN calls : calls[k].port = StrVal(ttyUSB1)

\* the four sources of the monitor baud, in the order of precedence
BaudSources ==
    <<monitor_baud, environ.IDF_MONITOR_BAUD, environ.MONITORBAUD,
      project_desc.monitor_baud>>

\* a value that is given and is not empty (an unset variable, an absent key, the
\* empty string and the number 0 are empty)
NonEmpty(v) == v \notin {None, Missing, StrVal(<<>>), IntVal(0)}

\* C2: whatever combination of --monitor-baud, IDF_MONITOR_BAUD, MONITORBAUD and
\* the project description's monitor_baud is given, the baud handed to idf_monitor
\* with -b is the first non-empty of them in that order; monitor fails for want of
\* a baud only when none of them is non-empty.
C2_BaudPrecedence ==
    /\ \A k \in DOMAIN calls :
           (\E i \in 1..4 : NonEmpty(BaudSources[i])) =>
               \E i \in 1..4 :
                   /\ NonEmpty(BaudSources[i])
                   /\ \A j \in 1..(i - 1) : ~NonEmpty(BaudSources[j])
                   /\ calls[k].baud = BaudSources[i]
    /\ error = KeyError => \A i \in 1..4 : ~NonEmpty(BaudSources[i])

\* C2 witness: port COM5, no baud option, no environment override, the project
\* description says 115200: idf_monitor is run with -p COM5 -b 115200
C2_Witness ==
    /\ port_option = StrVal(COM5)
    /\ monitor_baud = None
    /\ environ = DefaultEnviron
    /\ project_desc.monitor_baud = Baud115200
    /\ Len(calls) = 1
    /\ calls[1].tool = "idf_monitor"
    /\ calls[1].port = StrVal(COM5)
    /\ calls[1].baud = Baud115200

\* C3: an enumeration that finds no device ends the invocation with the
\* NoDeviceFoundError, and when it does no port option was given, args.port is
\* still unset and no external tool has been invoked.
C3_NoDeviceFound ==
    /\ \A k \in DOMAIN enumerations :
           enumerations[k] = <<>> => error = NoDeviceFoundError /\ phase = "failed"
    /\ error = NoDeviceFoundError =>
           /\ port_option = None
           /\ args_port = None
           /\ calls = <<>>
           /\ enumerations = << <<>> >>

\* C3 witness: erase_flash, run first with no port and no device, failed
C3_Witness ==
    /\ ran = <<"erase_flash">>
    /\ devices = {}
    /\ error = NoDeviceFoundError

\* the scan of one task list: what global_callback may change
ScanEffect(old, new) ==
    LET enc == HasTask(old, "encrypted-flash") \/ HasTask(old, "encrypted-app-flash")
        mon == HasTask(old, "monitor")
    IN  /\ DOMAIN new = DOMAIN old
        /\ \A k \in DOMAIN old : new[k].name = old[k].name
        /\ enc /\ mon => new[FirstTask(old, "monitor")].encrypted = TRUE
        /\ \A k \in DOMAIN old :
               ~(enc /\ mon /\ k = FirstTask(old, "monitor")) => new[k] = old[k]
        /\ ~enc => new = old
        /\ ~mon => new = old

\* C4: after global_callback the monitor task (the first one named, the one the
\* scheduler runs) has its encrypted flag set when the list names encrypted-flash
\* or encrypted-app-flash; without either the list is unchanged; without a monitor
\* task nothing changes and nothing is raised; no other task is touched.  The flag
\* reaches idf_monitor as --encrypted.
C4_EncryptionScan ==
    /\ [][phase = "parsed" /\ phase' # "parsed" =>
              ScanEffect(tasks, tasks') /\ error' = NoError]_vars
    /\ [](\A k \in DOMAIN calls :
              calls[k].tool = "idf_monitor" =>
                  /\ calls[k].encrypted = tasks[FirstTask(tasks, "monitor")].encrypted
                  /\ (HasTask(tasks, "encrypted-flash") \/ HasTask(tasks, "encrypted-app-flash")
                          => calls[k].encrypted))

\* C4 witness: encrypted-app-flash and monitor were named, the flag is set and
\* idf_monitor was run with --encrypted
C4_Witness ==
    /\ HasTask(tasks, "encrypted-app-flash")
    /\ ~HasTask(tasks, "encrypted-flash")
    /\ Len(calls) = 2
    /\ calls[2].tool = "idf_monitor"
    /\ calls[2].encrypted

\* C5: erase_flash runs before every flash variant named with it, every flash
\* variant runs before monitor when both are named, and so erase_flash runs before
\* monitor whenever a flash variant is named with them.
C5_Ordering ==
    \A f \in FlashVariants :
        /\ f \in Range(ran) /\ HasTask(tasks, "erase_flash") => Before("erase_flash", f)
        /\ "monitor" \in Range(ran) /\ HasTask(tasks, f) => Before(f, "monitor")
        /\ "monitor" \in Range(ran) /\ HasTask(tasks, f) /\ HasTask(tasks, "erase_flash")
               => Before("erase_flash", "monitor")

\* C5 witness: all eight actions were named and have run, erase_flash first and
\* monitor last
C5_Witness ==
    /\ Len(ran) = 8
    /\ ran[1] = "erase_flash"
    /\ ran[8] = "monitor"
    /\ ran[2] = "encrypted-app-flash"

\* C6 as stated: validated on its own, the serial table has no dangling
\* predecessor and no cycle.
C6_Original ==
    base = {} => vresult \notin {"dangling", "cycle"}

\* C6 amended: the table has no cycle and no action that precedes itself, and the
\* only predecessor names it does not declare itself are the build actions all,
\* app, bootloader and partition_table, which base_actions declares: merged with
\* them the table validates.
C6_WellFormed ==
    /\ vresult # "cycle"
    /\ vresult = "dangling" => base = {} /\ vbad \in BuildActions
    /\ \A n \in ActionNames : n \notin predecessors_of(n)

\* C6 witness: validate went through the whole merged table and accepted it
C6_Witness ==
    /\ base = BuildActions
    /\ vresult = "ok"
    /\ vdone = ActionNames \cup BuildActions

\* C7: the notice is printed at most once in one invocation, never with an
\* explicit port, and exactly once as soon as a port was chosen automatically,
\* however many actions use the port afterwards; the port announced is the one
\* chosen.
C7_NoticeOnce ==
    /\ Len(printed) <= 1
    /\ port_option # None => printed = <<>>
    /\ port_option = None /\ args_port # None => printed = <<args_port>>
    /\ printed # <<>> => port_option = None /\ printed = <<args_port>>
    /\ port_option = None /\ calls # <<>> => Len(printed) = 1

\* C7 witness: no explicit port, two actions have used the port, one notice
C7_Witness ==
    /\ port_option = None
    /\ Len(calls) = 2
    /\ calls[2].tool = "idf_monitor"
    /\ Len(printed) = 1

Options(n) == Range(serial_actions[n].options)

\* C8 as stated: every action run declares a predecessor list and both the port
\* and the baud option, monitor the filter and encryption flags as well.
C8_Original ==
    \A k \in DOMAIN ran :
        LET n == ran[k]
        IN  /\ "order_dependencies" \in serial_actions[n].keys
            /\ {"port", "baud_rate"} \subseteq Options(n)
            /\ n = "monitor" => {"print_filter", "encrypted"} \subseteq Options(n)

\* C8 amended: every action run but erase_flash declares a predecessor list; flash,
\* erase_flash, app-flash, bootloader-flash and partition_table-flash declare both
\* the port and the baud option; encrypted-flash and encrypted-app-flash declare no
\* options; monitor declares the port option, the filter, its own monitor baud and
\* the encryption flag, and not the flashing baud option.
C8_Declared ==
    \A k \in DOMAIN ran :
        LET n == ran[k]
            a == serial_actions[n]
        IN  /\ "order_dependencies" \in a.keys <=> n # "erase_flash"
            /\ "order_dependencies" \in a.keys <=> a.order_dependencies # <<>>
            /\ n \in {"flash", "erase_flash", "app-flash", "bootloader-flash",
                      "partition_table-flash"}
                   => "options" \in a.keys /\ {"port", "baud_rate"} \subseteq Options(n)
            /\ n \in {"encrypted-flash", "encrypted-app-flash"}
                   => "options" \notin a.keys /\ Options(n) = {}
            /\ n = "monitor"
                   => Options(n) = {"port", "print_filter", "monitor_baud", "encrypted"}

\* C8 witness: erase_flash and monitor were named together and both have run
C8_Witness ==
    /\ HasTask(tasks, "erase_flash")
    /\ HasTask(tasks, "monitor")
    /\ Len(calls) = 2
    /\ phase = "done"

\* C9 as stated: monitor run without the ELF file fails with the
\* MissingArtifactError and the monitor tool is not invoked.
C9_Original ==
    ran = <<"monitor">> /\ ~elf_exists =>
        error = MissingArtifactError /\ calls = <<>>

\* C9 amended: monitor run without the ELF file fails and never invokes the
\* monitor tool; it fails with the MissingArtifactError exactly when the port
\* resolved (given, or a device was found) and the project description was there
\* (present, or created by ensure_build_directory), and with the error of the
\* earlier step otherwise.  With the ELF file there is no MissingArtifactError.
C9_MissingArtifact ==
    /\ ran = <<"monitor">> /\ ~elf_exists =>
           /\ calls = <<>>
           /\ phase = "failed"
           /\ error \in {NoDeviceFoundError, BuildDirectoryError, MissingArtifactError}
           /\ error = MissingArtifactError <=> args_port # None /\ desc_exists
    /\ error = MissingArtifactError => ~elf_exists

\* C9 witness: monitor with an explicit port and no ELF file failed
C9_Witness ==
    /\ ran = <<"monitor">>
    /\ port_option = StrVal(COM5)
    /\ ~elf_exists
    /\ error = MissingArtifactError
    /\ calls = <<>>

\* C10: in one invocation the devices are enumerated at most once, every tool is
\* handed the port held in args.port, and so all tools get the same port, whatever
\* is plugged in or pulled out between the actions.
C10_PortConsistency ==
    /\ Len(enumerations) <= 1
    /\ \A k \in DOMAIN calls : calls[k].port = args_port
    /\ \A j, k \in DOMAIN calls : calls[j].port = calls[k].port
    /\ port_option = None /\ calls # <<>> =>
           /\ enumerations # <<>>
           /\ args_port.t = "str"
           /\ GreatestOf(args_port.s, enumerations[1])

\* C10 witness: no explicit port; flash and then monitor both used ttyUSB0, which
\* was chosen when it was the only device, although ttyUSB1 is attached by now
C10_Witness ==
    /\ port_option = None
    /\ Len(calls) = 2
    /\ calls[1].tool = "run_target"
    /\ calls[2].tool = "idf_monitor"
    /\ enumerations = << <<ttyUSB0>> >>
    /\ calls[2].port = StrVal(ttyUSB0)
    /\ devices = {ttyUSB0, ttyUSB1}
    /\ Len(tasks) = 2

====
